---------------------------- MODULE Spec2Model ----------------------------
(***************************************************************************)
(* A model of src/lib/Builder.js: the container Builder (file discovery,   *)
(* hierarchy sort, import and namespace resolution, definition             *)
(* normalisation) and the Definition entity.                               *)
(*                                                                         *)
(* Four specifications share the variables below:                          *)
(*   SpecDef      the Definition entity's method-call list                 *)
(*   SpecSort     sortFilesByHierarchy as a function of its input list     *)
(*   SpecBuild    buildContainer over directory trees and option objects   *)
(*   SpecResolve  one parseFile call over import graphs                    *)
(*                                                                         *)
(* JavaScript strings whose content the code inspects or builds (file      *)
(* names, paths, namespaces, emitted names) are sequences of tokens, so    *)
(* that concatenation, suffix match and substring search are computed.     *)
(***************************************************************************)
EXTENDS Integers, Sequences, FiniteSets, TLC

VARIABLES
    calls,        \* Definition.calls
    lastCall,     \* the last operation applied to the Definition and its outcome
    engine,       \* which Array.prototype.sort the JavaScript runtime provides
    sortIn,       \* the argument of sortFilesByHierarchy
    sortOut,      \* its return value
    fs,           \* the directory tree: its files and each directory's listing
    options,      \* Builder.options
    built,        \* the last buildContainer call: argument, discovery, order, container
    require,      \* the configuration loader: file -> parsed record
    top,          \* the descriptor and namespace parseFile is first called with
    run           \* that parseFile call's outcome: the container and its trace

vars == <<calls, lastCall, engine, sortIn, sortOut, fs, options, built,
          require, top, run>>

(***************************************************************************)
(* Bounds                                                                  *)
(***************************************************************************)
MaxCalls   == 3    \* longest Definition.calls explored
MaxPairs   == 2    \* longest argument of setMethodCalls
MaxSortLen == 3    \* longest argument of sortFilesByHierarchy explored alone
MaxLevel   == 2    \* deepest level of a descriptor in that argument
MaxFiles   == 2    \* most files in a directory tree
MaxImports == 2    \* longest imports list of a configuration record
\* The engine's call stack holds StackLimit frames of parseFile; one more call
\* throws a RangeError, which nothing in the code catches
StackLimit == 4

----------------------------------------------------------------------------
(***************************************************************************)
(* JavaScript values                                                       *)
(***************************************************************************)
Undefined == [t |-> "undefined", v |-> "", n |-> 0]
JsStr(s)  == [t |-> "string", v |-> s, n |-> 0]
JsNum(k)  == [t |-> "number", v |-> "", n |-> k]
NaN       == [t |-> "number", v |-> "NaN", n |-> 0]
JsTrue    == [t |-> "boolean", v |-> "true", n |-> 0]
JsFalse   == [t |-> "boolean", v |-> "false", n |-> 0]

TypeOf(x) == x.t

IsNaN(x) == x.t = "number" /\ x.v = "NaN"

\* ToBoolean
Truthy(x) ==
    CASE x.t = "undefined" -> FALSE
      [] x.t = "boolean"   -> x.v = "true"
      [] x.t = "string"    -> x.v # ""
      [] x.t = "number"    -> ~IsNaN(x) /\ x.n # 0
      [] x.t = "object"    -> TRUE

\* ToNumber, for the types the code applies it to
ToNumber(x) ==
    CASE x.t = "undefined" -> NaN
      [] x.t = "boolean"   -> IF x.v = "true" THEN JsNum(1) ELSE JsNum(0)
      [] x.t = "number"    -> x

\* x + k for a number k
JsAdd(x, k) ==
    LET nx == ToNumber(x) IN IF IsNaN(nx) THEN NaN ELSE JsNum(nx.n + k)

\* x < y (false as soon as either side converts to NaN)
JsLess(x, y) ==
    LET nx == ToNumber(x)
        ny == ToNumber(y)
    IN  ~IsNaN(nx) /\ ~IsNaN(ny) /\ nx.n < ny.n

Range(s) == {s[i] : i \in DOMAIN s}

SeqsUpTo(S, n) == UNION {[1..k -> S] : k \in 0..n}

----------------------------------------------------------------------------
(***************************************************************************)
(* Definition (src/lib/Builder.js 257-315)                                 *)
(***************************************************************************)
\* The (method, arguments) pairs the operations are tried with: two valid
\* names, the empty string, undefined and a number
Pairs ==
    {<<JsStr("init"), <<1>>>>, <<JsStr("start"), <<>>>>, <<JsStr(""), <<>>>>,
     <<Undefined, <<1>>>>, <<JsNum(7), <<>>>>}

\* new Definition(): calls = []
NewDefinitionCalls == <<>>

\* addMethodCall without the emptiness test (typeof only)
AddMethodCall_TypeOnly(c, method, arguments) ==
    IF TypeOf(method) # "string"
    THEN [calls |-> c, threw |-> TRUE]
    ELSE [calls |-> Append(c, <<method, arguments>>), threw |-> FALSE]

\* Definition.prototype.addMethodCall: the calls afterwards, and whether it threw
AddMethodCall(c, method, arguments) ==
    IF ~Truthy(method) \/ TypeOf(method) # "string"
    THEN [calls |-> c, threw |-> TRUE]
    ELSE [calls |-> Append(c, <<method, arguments>>), threw |-> FALSE]

\* Definition.prototype.setMethodCalls: for (i in calls) this.addMethodCall(...)
RECURSIVE SetMethodCallsFrom(_, _, _)
SetMethodCallsFrom(c, pairs, i) ==
    IF i > Len(pairs)
    THEN [calls |-> c, threw |-> FALSE]
    ELSE LET r == AddMethodCall(c, pairs[i][1], pairs[i][2])
         IN  IF r.threw THEN r ELSE SetMethodCallsFrom(r.calls, pairs, i + 1)

SetMethodCalls(c, pairs) == SetMethodCallsFrom(c, pairs, 1)

DoAddMethodCall ==
    \E pair \in Pairs :
        LET r == AddMethodCall(calls, pair[1], pair[2])
        IN  /\ Len(calls) < MaxCalls
            /\ calls' = r.calls
            /\ lastCall' = [op |-> "addMethodCall", pairs |-> <<pair>>,
                            before |-> calls, threw |-> r.threw]
            /\ UNCHANGED <<engine, sortIn, sortOut, fs, options, built,
                           require, top, run>>

DoSetMethodCalls ==
    \E pairs \in SeqsUpTo(Pairs, MaxPairs) :
        LET r == SetMethodCalls(calls, pairs)
        IN  /\ Len(calls) + Len(pairs) <= MaxCalls
            /\ calls' = r.calls
            /\ lastCall' = [op |-> "setMethodCalls", pairs |-> pairs,
                            before |-> calls, threw |-> r.threw]
            /\ UNCHANGED <<engine, sortIn, sortOut, fs, options, built,
                           require, top, run>>

NoCall == [op |-> "none", pairs |-> <<>>, before |-> <<>>, threw |-> FALSE]

----------------------------------------------------------------------------
(***************************************************************************)
(* File names and paths.  A name is a sequence of tokens ("services.json"  *)
(* is <<"services", ".json">>); a path is a sequence of names.             *)
(***************************************************************************)
ServicesJson   == <<"services", ".json">>
ParametersJson == <<"parameters", ".json">>
EnvJson(env)   == <<"services", "_", env, ".json">>
LibDir         == <<"lib">>
NodeModulesDir == <<"node_modules">>

IsSuffix(suf, s) ==
    /\ Len(suf) <= Len(s)
    /\ SubSeq(s, Len(s) - Len(suf) + 1, Len(s)) = suf

\* new RegExp("services.json$").test(filepath): only the last name can match
MatchesServices(filepath)   == IsSuffix(ServicesJson, filepath[Len(filepath)])
\* new RegExp("parameters.json$").test(filepath)
MatchesParameters(filepath) == IsSuffix(ParametersJson, filepath[Len(filepath)])
\* new RegExp("services_" + env + ".json$").test(filepath)
MatchesEnv(filepath, env)   == IsSuffix(EnvJson(env), filepath[Len(filepath)])

\* filepath.indexOf('node_modules') === -1
HasNoNodeModules(filepath) ==
    \A i \in DOMAIN filepath : "node_modules" \notin Range(filepath[i])

\* A file descriptor as findServiceJsonFiles pushes it; a property the object
\* literal does not set reads as undefined
Descriptor(file, dir, level, isEnv, isParam) ==
    [file |-> file, dir |-> dir, level |-> level,
     isEnvFile |-> isEnv, isParamFile |-> isParam, config |-> Undefined]

----------------------------------------------------------------------------
(***************************************************************************)
(* sortFilesByHierarchy (src/lib/Builder.js 123-155)                       *)
(*                                                                         *)
(* sortFunc answers true or false, never a negative number, so it is not a *)
(* consistent comparator and the order Array.prototype.sort leaves is      *)
(* implementation-defined.  The two sorts V8 has shipped are modelled, for *)
(* arrays shorter than both of their thresholds (10 and 64 elements):      *)
(*   "InsertionSort"  V8 up to 6.x  (Node.js up to 10)                     *)
(*   "TimSort"        V8 from 7.0   (Node.js from 11)                      *)
(***************************************************************************)
Engines == {"InsertionSort", "TimSort"}

\* sortFunc(a, b): a.level < b.level
sortFunc(a, b) ==
    IF JsLess(a.level, b.level) THEN JsTrue ELSE JsFalse

\* The number Array.prototype.sort makes of the comparator's answer
SortOrder(a, b) == ToNumber(sortFunc(a, b)).n

\* Legacy V8 InsertionSort: the element moves left past every tmp with
\* comparefn(tmp, element) > 0
RECURSIVE InsertFromRight(_, _)
InsertFromRight(prefix, element) ==
    IF prefix = <<>> \/ ~(SortOrder(prefix[Len(prefix)], element) > 0)
    THEN Append(prefix, element)
    ELSE Append(InsertFromRight(SubSeq(prefix, 1, Len(prefix) - 1), element),
                prefix[Len(prefix)])

RECURSIVE InsertionSortFrom(_, _)
InsertionSortFrom(arr, i) ==
    IF i > Len(arr)
    THEN arr
    ELSE InsertionSortFrom(
             InsertFromRight(SubSeq(arr, 1, i - 1), arr[i])
                 \o SubSeq(arr, i + 1, Len(arr)), i + 1)

InsertionSort(arr) == InsertionSortFrom(arr, 2)

\* V8 TimSort, CountAndMakeRun: the length of the run that starts the array
RECURSIVE RunEnd(_, _, _)
RunEnd(arr, idx, isDescending) ==
    IF idx > Len(arr)
    THEN Len(arr)
    ELSE LET order == SortOrder(arr[idx], arr[idx - 1])
         IN  IF (isDescending /\ order >= 0) \/ (~isDescending /\ order < 0)
             THEN idx - 1
             ELSE RunEnd(arr, idx + 1, isDescending)

Reverse(s) == [i \in 1..Len(s) |-> s[Len(s) + 1 - i]]

CountAndMakeRun(arr) ==
    IF Len(arr) < 2
    THEN [arr |-> arr, runLength |-> Len(arr)]
    ELSE LET isDescending == SortOrder(arr[2], arr[1]) < 0
             runLength == RunEnd(arr, 3, isDescending)
         IN  [arr |-> IF isDescending
                      THEN Reverse(SubSeq(arr, 1, runLength))
                               \o SubSeq(arr, runLength + 1, Len(arr))
                      ELSE arr,
              runLength |-> runLength]

\* V8 TimSort, BinarySortInsertion: the index (from 0) the pivot goes to
RECURSIVE BinarySearch(_, _, _, _)
BinarySearch(arr, pivot, left, right) ==
    IF left >= right
    THEN left
    ELSE LET mid == left + ((right - left) \div 2)
         IN  IF SortOrder(pivot, arr[mid + 1]) < 0
             THEN BinarySearch(arr, pivot, left, mid)
             ELSE BinarySearch(arr, pivot, mid + 1, right)

RECURSIVE BinaryInsertionSort(_, _)
BinaryInsertionSort(arr, start) ==
    IF start > Len(arr)
    THEN arr
    ELSE LET pivot == arr[start]
             left  == BinarySearch(arr, pivot, 0, start - 1)
         IN  BinaryInsertionSort(
                 SubSeq(arr, 1, left) \o <<pivot>> \o SubSeq(arr, left + 1, start - 1)
                     \o SubSeq(arr, start + 1, Len(arr)),
                 start + 1)

TimSort(arr) ==
    LET r == CountAndMakeRun(arr) IN BinaryInsertionSort(r.arr, r.runLength + 1)

\* array.sort(sortFunc)
ArraySort(arr, eng) ==
    IF eng = "InsertionSort" THEN InsertionSort(arr) ELSE TimSort(arr)

IsEnvDescriptor(f)    == Truthy(f.isEnvFile)
IsParamDescriptor(f)  == ~Truthy(f.isEnvFile) /\ Truthy(f.isParamFile)
IsNonEnvDescriptor(f) == ~Truthy(f.isEnvFile) /\ ~Truthy(f.isParamFile)

\* sortFilesByHierarchy with the two service groups concatenated the other way
sortFilesByHierarchy_EnvFirst(files, eng) ==
    ArraySort(SelectSeq(files, IsEnvDescriptor), eng)
        \o ArraySort(SelectSeq(files, IsNonEnvDescriptor), eng)
        \o SelectSeq(files, IsParamDescriptor)

sortFilesByHierarchy(files, eng) ==
    LET envFiles       == SelectSeq(files, IsEnvDescriptor)
        parameterFiles == SelectSeq(files, IsParamDescriptor)
        nonEnvFiles    == SelectSeq(files, IsNonEnvDescriptor)
    IN  ArraySort(nonEnvFiles, eng) \o ArraySort(envFiles, eng) \o parameterFiles

----------------------------------------------------------------------------
(***************************************************************************)
(* Configuration records, the sink, buildDefinition and parseFile          *)
(* (src/lib/Builder.js 166-240)                                            *)
(*                                                                         *)
(* A namespace and an emitted name are token sequences: "a.b.p" is         *)
(* <<"a", ".", "b", ".", "p">> and '' is <<>>.  A record's parameters and  *)
(* services are sequences of <<key, value>> in the object's key order.     *)
(* A namespace the record does not declare is <<>>, which the code cannot  *)
(* tell from a declared '' (both are falsy).                               *)
(***************************************************************************)
ConfigRecord(ns, imports, parameters, services) ==
    [t |-> "object", namespace |-> ns, imports |-> imports,
     parameters |-> parameters, services |-> services]

\* A raw service record: class, and isSingleton when the record has it
RawService(class, isSingleton) == [class |-> class, isSingleton |-> isSingleton]

\* A container nothing was set on yet, with the trace of the calls made on it:
\* log is the sequence of set/setParameter calls, entered the call stacks with
\* which parseFile was entered, threw whether an exception is propagating
EmptyContainer ==
    [parameters |-> <<>>, services |-> <<>>, log |-> <<>>,
     entered |-> <<>>, threw |-> FALSE]

\* A name -> value map as a sequence of <<name, value>>, at most one per name
Put(map, name, value) ==
    IF \E i \in DOMAIN map : map[i][1] = name
    THEN [i \in DOMAIN map |-> IF map[i][1] = name THEN <<name, value>> ELSE map[i]]
    ELSE Append(map, <<name, value>>)

Get(map, name) == map[CHOOSE i \in DOMAIN map : map[i][1] = name][2]

\* container.setParameter(name, value), called from the frame whose stack is chain
SetParameter(c, name, value, chain) ==
    [c EXCEPT !.parameters = Put(@, name, value),
              !.log = Append(@, [op |-> "setParameter", name |-> name, chain |-> chain])]

\* container.set(name, definition)
Set(c, name, definition, chain) ==
    [c EXCEPT !.services = Put(@, name, definition),
              !.log = Append(@, [op |-> "set", name |-> name, chain |-> chain])]

\* Builder.prototype.buildDefinition (the fields the configurations here set)
buildDefinition(config, rootDirectory, namespace) ==
    [file          |-> config.class,
     rootDirectory |-> rootDirectory,
     isSingleton   |-> IF config.isSingleton # Undefined
                       THEN config.isSingleton ELSE JsTrue,
     tags          |-> <<>>,
     namespace     |-> namespace]

\* config.namespace appended without the '.' separator
EffectiveNamespace_NoDot(namespace, config) ==
    IF config.namespace # <<>>
    THEN IF namespace # <<>>
         THEN namespace \o config.namespace
         ELSE config.namespace
    ELSE namespace

\* lines 180-184: the namespace of this file, from the one passed in
EffectiveNamespace(namespace, config) ==
    IF config.namespace # <<>>
    THEN IF namespace # <<>>
         THEN namespace \o <<".">> \o config.namespace
         ELSE config.namespace
    ELSE namespace

\* line 186: modifiedNs
ModifiedNs(namespace) == IF namespace # <<>> THEN namespace \o <<".">> ELSE <<>>

\* lines 192-196: the descriptor of an import.  An import string is the sequence
\* of its '/'-separated segments, the first being "." or ".."
ImportDescriptor(fileinfo, import) ==
    LET dotted == IF Head(import) = <<"..">> THEN <<<<".">>>> \o import ELSE import
        file   == fileinfo.dir \o Tail(dotted)
        path   == SubSeq(file, 1, Len(file) - 1)
    IN  [file |-> file, dir |-> path, level |-> fileinfo.level,
         isEnvFile |-> Undefined, isParamFile |-> Undefined, config |-> Undefined]

\* lines 173-177
LoadConfig(fileinfo, req) ==
    IF Truthy(fileinfo.config) THEN fileinfo.config ELSE req[fileinfo.file]

\* lines 201-203
RECURSIVE EmitParameters(_, _, _, _)
EmitParameters(c, modifiedNs, parameters, chain) ==
    IF parameters = <<>>
    THEN c
    ELSE EmitParameters(
             SetParameter(c, modifiedNs \o <<Head(parameters)[1]>>,
                          Head(parameters)[2], chain),
             modifiedNs, Tail(parameters), chain)

\* lines 208-214
RECURSIVE EmitServices(_, _, _, _, _)
EmitServices(c, fileinfo, namespace, serviceConfigs, chain) ==
    IF serviceConfigs = <<>>
    THEN c
    ELSE EmitServices(
             Set(c, ModifiedNs(namespace) \o <<Head(serviceConfigs)[1]>>,
                 buildDefinition(Head(serviceConfigs)[2], fileinfo.dir, namespace),
                 chain),
             fileinfo, namespace, Tail(serviceConfigs), chain)

\* The services step without the parameter-file test
OwnServices_Always(c, fileinfo, namespace, config, chain) ==
    EmitServices(c, fileinfo, namespace, config.services, chain)

\* lines 205-215
OwnServices(c, fileinfo, namespace, config, chain) ==
    IF ~Truthy(fileinfo.isParamFile)
    THEN EmitServices(c, fileinfo, namespace, config.services, chain)
    ELSE c

RECURSIVE ParseFile(_, _, _, _, _)
RECURSIVE ParseImports(_, _, _, _, _, _)

\* The imports loop run from the last import to the first
ParseImports_Reversed(fileinfo, c, namespace, chain, imports, req) ==
    IF imports = <<>> \/ c.threw
    THEN c
    ELSE ParseImports(
             fileinfo,
             ParseFile(ImportDescriptor(fileinfo, imports[Len(imports)]), c,
                       namespace, chain, req),
             namespace, chain, SubSeq(imports, 1, Len(imports) - 1), req)

\* The imports loop skipping a file that is being parsed already
ParseImports_SkipActive(fileinfo, c, namespace, chain, imports, req) ==
    IF imports = <<>> \/ c.threw
    THEN c
    ELSE ParseImports(
             fileinfo,
             IF ImportDescriptor(fileinfo, Head(imports)).file \in Range(chain)
             THEN c
             ELSE ParseFile(ImportDescriptor(fileinfo, Head(imports)), c,
                            namespace, chain, req),
             namespace, chain, Tail(imports), req)

\* lines 189-198: the imports not yet parsed; an exception ends the loop
ParseImports(fileinfo, c, namespace, chain, imports, req) ==
    IF imports = <<>> \/ c.threw
    THEN c
    ELSE ParseImports(
             fileinfo,
             ParseFile(ImportDescriptor(fileinfo, Head(imports)), c, namespace, chain, req),
             namespace, chain, Tail(imports), req)

\* Builder.prototype.parseFile, called with the stack of parseFile calls above it
ParseFile(fileinfo, c, namespaceArg, stackAbove, req) ==
    LET chain == Append(stackAbove, fileinfo.file)
    IN  IF Len(chain) > StackLimit
        THEN [c EXCEPT !.threw = TRUE]
        ELSE LET config    == LoadConfig(fileinfo, req)
                 namespace == EffectiveNamespace(namespaceArg, config)
                 imported  == ParseImports(fileinfo,
                                           [c EXCEPT !.entered = Append(@, chain)],
                                           namespace, chain, config.imports, req)
             IN  IF imported.threw
                 THEN imported
                 ELSE OwnServices(
                          EmitParameters(imported, ModifiedNs(namespace),
                                         config.parameters, chain),
                          fileinfo, namespace, config, chain)

----------------------------------------------------------------------------
(***************************************************************************)
(* The filesystem, findServiceJsonFiles and buildContainer                 *)
(* (src/lib/Builder.js 21-112)                                             *)
(*                                                                         *)
(* fs.files is the set of the tree's files as absolute paths; fs.listing    *)
(* gives, for each directory, its entries in the order readdirSync lists   *)
(* them.  A directory exists when a file lies below it.                    *)
(***************************************************************************)
RootDirectory == <<<<"app">>>>

IsPrefix(p, q) == Len(p) <= Len(q) /\ SubSeq(q, 1, Len(p)) = p

\* fs.statSync(p).isFile()
IsFile(fsys, p) == p \in fsys.files

\* fs.statSync(p).isDirectory()
IsDirectory(fsys, p) == p \in DOMAIN fsys.listing

\* fs.readdirSync(dir)
ReaddirSync(fsys, dir) == fsys.listing[dir]

\* An options object; a property it does not have reads as undefined
OptionsObject(env, ignore) ==
    [t |-> "object", env |-> env, ignoreNodeModulesDirectory |-> ignore]

\* lines 22-25
DefaultOptions == OptionsObject(JsFalse, JsTrue)

\* lines 99-105: the descriptors one file contributes
Classify(filepath, absolutePath, level, opts) ==
    IF MatchesServices(filepath)
    THEN <<Descriptor(filepath, absolutePath, level, JsFalse, JsFalse)>>
    ELSE IF MatchesParameters(filepath)
    THEN <<Descriptor(filepath, absolutePath, level, JsFalse, JsTrue)>>
    ELSE IF Truthy(opts.env) /\ MatchesEnv(filepath, opts.env.v)
    THEN <<Descriptor(filepath, absolutePath, level, JsTrue, JsFalse)>>
    ELSE <<>>

\* line 93: the second operand of the directory test
MayDescend(filepath, opts) ==
    ~Truthy(opts.ignoreNodeModulesDirectory) \/ HasNoNodeModules(filepath)

RECURSIVE findServiceJsonFiles(_, _, _, _)
RECURSIVE ScanEntries(_, _, _, _, _)

\* lines 88-109: the loop over the listed names
ScanEntries(absolutePath, level, opts, fsys, names) ==
    IF names = <<>>
    THEN <<>>
    ELSE LET filepath == Append(absolutePath, Head(names))
             here ==
                 IF IsDirectory(fsys, filepath) /\ MayDescend(filepath, opts)
                 THEN findServiceJsonFiles(filepath, JsAdd(level, 1), opts, fsys)
                 ELSE IF IsFile(fsys, filepath)
                 THEN Classify(filepath, absolutePath, level, opts)
                 ELSE <<>>
         IN  here \o ScanEntries(absolutePath, level, opts, fsys, Tail(names))

\* Builder.prototype.findServiceJsonFiles
findServiceJsonFiles(absolutePath, level, opts, fsys) ==
    ScanEntries(absolutePath, level, opts, fsys, ReaddirSync(fsys, absolutePath))

\* lines 59-61: parseFile on each file in turn; an exception ends the loop
RECURSIVE ParseAll(_, _, _)
ParseAll(files, c, req) ==
    IF files = <<>> \/ c.threw
    THEN c
    ELSE ParseAll(Tail(files), ParseFile(Head(files), c, <<>>, <<>>, req), req)

\* line 49: this.options = options || this.options
EffectiveOptions(arg, thisOptions) == IF Truthy(arg) THEN arg ELSE thisOptions

\* line 55: the level findServiceJsonFiles is first called with (none is passed)
RootLevel == Undefined

NotBuilt ==
    [called |-> FALSE, arg |-> Undefined, found |-> <<>>, files |-> <<>>,
     container |-> EmptyContainer]

\* Builder.prototype.buildContainer(rootdirectory, arg)
BuildContainer(arg) ==
    LET opts   == EffectiveOptions(arg, options)
        found  == findServiceJsonFiles(RootDirectory, RootLevel, opts, fs)
        sorted == sortFilesByHierarchy(found, engine)
    IN  /\ options' = opts
        /\ built' = [called |-> TRUE, arg |-> arg, found |-> found, files |-> sorted,
                     container |-> ParseAll(sorted, EmptyContainer, require)]
        /\ UNCHANGED <<calls, lastCall, engine, sortIn, sortOut, fs, require, top, run>>

----------------------------------------------------------------------------
(***************************************************************************)
(* Values of the variables a specification does not use                    *)
(***************************************************************************)
NotSorted == [done |-> FALSE, files |-> <<>>]
NoFs      == [files |-> {}, listing |-> <<>>]
NoTop     == [fileinfo |-> Undefined, namespace |-> <<>>]
NotRun    == [called |-> FALSE, container |-> EmptyContainer]

IdleDef     == calls = NewDefinitionCalls /\ lastCall = NoCall
IdleSort    == sortIn = <<>> /\ sortOut = NotSorted
IdleBuild   == fs = NoFs /\ options = DefaultOptions /\ built = NotBuilt
IdleResolve == top = NoTop /\ run = NotRun

----------------------------------------------------------------------------
(***************************************************************************)
(* SpecDef: addMethodCall and setMethodCalls on a new Definition           *)
(***************************************************************************)
InitDef ==
    /\ calls = NewDefinitionCalls
    /\ lastCall = NoCall
    /\ engine = "TimSort" /\ require = <<>>
    /\ IdleSort /\ IdleBuild /\ IdleResolve

NextDef == DoAddMethodCall \/ DoSetMethodCalls

SpecDef == InitDef /\ [][NextDef]_vars

----------------------------------------------------------------------------
(***************************************************************************)
(* SpecSort: sortFilesByHierarchy on lists of descriptors with integer     *)
(* levels                                                                  *)
(***************************************************************************)
DirTags == <<"d1", "d2", "d3", "d4", "d5", "d6">>

Kinds == {"Service", "EnvironmentService", "Parameter"}

\* The descriptor discovery makes of the i-th input file, of the given kind
InputDescriptor(i, kind, level) ==
    LET dir  == Append(RootDirectory, <<DirTags[i]>>)
        name == CASE kind = "Service"            -> ServicesJson
                  [] kind = "EnvironmentService" -> EnvJson("test")
                  [] kind = "Parameter"          -> ParametersJson
    IN  Classify(Append(dir, name), dir, JsNum(level),
                 OptionsObject(JsStr("test"), JsTrue))[1]

InitSort ==
    /\ engine \in Engines
    /\ \E k \in 0..MaxSortLen :
           \E ks \in [1..k -> Kinds], ls \in [1..k -> 0..MaxLevel] :
               sortIn = [i \in 1..k |-> InputDescriptor(i, ks[i], ls[i])]
    /\ sortOut = NotSorted
    /\ require = <<>>
    /\ IdleDef /\ IdleBuild /\ IdleResolve

SortFiles ==
    /\ ~sortOut.done
    /\ sortOut' = [done |-> TRUE, files |-> sortFilesByHierarchy(sortIn, engine)]
    /\ UNCHANGED <<calls, lastCall, engine, sortIn, fs, options, built,
                   require, top, run>>

NextSort == SortFiles

SpecSort == InitSort /\ [][NextSort]_vars

----------------------------------------------------------------------------
(***************************************************************************)
(* SpecBuild: buildContainer, any number of times on one Builder, over the *)
(* directory trees of at most MaxFiles files, every listing order of the   *)
(* names, both sort engines.  Every file's record sets the parameter       *)
(* "name" and the service "svc" to values that tell the file.              *)
(***************************************************************************)
TreeDirs == {<<>>, <<LibDir>>, <<NodeModulesDir>>, <<LibDir, LibDir>>}
TreeFileNames == {ServicesJson, ParametersJson, EnvJson("test")}

CandidateFiles == {RootDirectory \o Append(d, n) : d \in TreeDirs, n \in TreeFileNames}

Trees == {F \in SUBSET CandidateFiles : Cardinality(F) <= MaxFiles}

\* The directories of a tree: the root and every directory a file lies below
DirsOf(F) ==
    {RootDirectory} \cup
    UNION {{SubSeq(f, 1, k) : k \in Len(RootDirectory)..(Len(f) - 1)} : f \in F}

\* The names of the entries of directory d
EntriesOf(F, d) ==
    {f[Len(d) + 1] : f \in {g \in F \cup DirsOf(F) : Len(g) > Len(d) /\ IsPrefix(d, g)}}

OrdersOf(S) ==
    {o \in [1..Cardinality(S) -> S] : \A i, j \in DOMAIN o : i # j => o[i] # o[j]}

\* The filesystems holding the files F: every order of every directory's entries
\* that some order of all the names induces
FileSystems(F) ==
    LET names == UNION {Range(SubSeq(f, Len(RootDirectory) + 1, Len(f))) : f \in F}
        In(d, n) == n \in EntriesOf(F, d)
    IN  {[files |-> F, listing |-> [d \in DirsOf(F) |-> SelectSeq(o, LAMBDA n : In(d, n))]] :
            o \in OrdersOf(names)}

FileConfig(f) ==
    ConfigRecord(<<>>, <<>>, <<<<"name", f>>>>, <<<<"svc", RawService(f, Undefined)>>>>)

OptionArgs ==
    {Undefined,
     OptionsObject(Undefined, Undefined),
     OptionsObject(JsStr("test"), Undefined),
     OptionsObject(Undefined, JsFalse),
     OptionsObject(JsStr("test"), JsTrue)}

InitBuild ==
    /\ engine \in Engines
    /\ \E F \in Trees : fs \in FileSystems(F)
    /\ options = DefaultOptions
    /\ built = NotBuilt
    /\ require = [f \in fs.files |-> FileConfig(f)]
    /\ IdleDef /\ IdleSort /\ IdleResolve

NextBuild == \E arg \in OptionArgs : BuildContainer(arg)

SpecBuild == InitBuild /\ [][NextBuild]_vars

----------------------------------------------------------------------------
(***************************************************************************)
(* SpecResolve: one parseFile call on a descriptor of a.json, over every   *)
(* import graph of three files in the root directory (cyclic ones          *)
(* included), each file with or without a namespace of its own, the        *)
(* descriptor a parameter file or not, with or without an inherited        *)
(* namespace.  Every record sets the parameter "p" and the service "s" to  *)
(* values that tell the file.                                              *)
(***************************************************************************)
ResolveNames == {<<"a", ".json">>, <<"b", ".json">>, <<"c", ".json">>}
TopFile      == Append(RootDirectory, <<"a", ".json">>)
FileB        == Append(RootDirectory, <<"b", ".json">>)
FileC        == Append(RootDirectory, <<"c", ".json">>)
ResolveFiles == {TopFile, FileB, FileC}

\* The import string "./<name>"
ImportString(n) == <<<<".">>, n>>

\* The imports lists: at most MaxImports import strings, none repeated
ImportLists ==
    {l \in SeqsUpTo({ImportString(n) : n \in ResolveNames}, MaxImports) :
        \A i, j \in DOMAIN l : i # j => l[i] # l[j]}

\* The namespace a file declares when it declares one: its letter
OwnNamespace(f) == <<f[Len(f)][1]>>

ResolveConfigs(f) ==
    {ConfigRecord(ns, imports, <<<<"p", f>>>>, <<<<"s", RawService(f, Undefined)>>>>) :
        ns \in {<<>>, OwnNamespace(f)}, imports \in ImportLists}

InitResolve ==
    /\ \E ca \in ResolveConfigs(TopFile), cb \in ResolveConfigs(FileB),
          cc \in ResolveConfigs(FileC) :
           require = (TopFile :> ca) @@ (FileB :> cb) @@ (FileC :> cc)
    /\ \E isParam \in {JsFalse, JsTrue}, ns \in {<<>>, <<"x">>} :
           top = [fileinfo  |-> Descriptor(TopFile, RootDirectory, RootLevel,
                                           JsFalse, isParam),
                  namespace |-> ns]
    /\ run = NotRun
    /\ engine = "TimSort"
    /\ IdleDef /\ IdleSort /\ IdleBuild

\* parseFile(top.fileinfo, container, top.namespace) on a new container
Resolve ==
    /\ ~run.called
    /\ run' = [called |-> TRUE,
               container |-> ParseFile(top.fileinfo, EmptyContainer,
                                       top.namespace, <<>>, require)]
    /\ UNCHANGED <<calls, lastCall, engine, sortIn, sortOut, fs, options, built,
                   require, top>>

NextResolve == Resolve

SpecResolve == InitResolve /\ [][NextResolve]_vars

----------------------------------------------------------------------------
(***************************************************************************)
(* Properties                                                              *)
(***************************************************************************)
\* The kind of a descriptor, in the specification's terms
KindOf(d) ==
    IF Truthy(d.isEnvFile) THEN "EnvironmentService"
    ELSE IF Truthy(d.isParamFile) THEN "Parameter"
    ELSE "Service"

\* The place of a kind's group in the processing order
GroupRank(kind) ==
    CASE kind = "Service"            -> 1
      [] kind = "EnvironmentService" -> 2
      [] kind = "Parameter"          -> 3

\* Where x stands in a sequence that holds it once
Pos(seq, x) == CHOOSE i \in DOMAIN seq : seq[i] = x

\* The number of directory descents from the scan root to a directory
Descents(dir) == Len(dir) - Len(RootDirectory)

(***************************************************************************)
(* C8.  calls only grows at its end: after addMethodCall or setMethodCalls *)
(* calls is what it was before followed by the pairs of the argument that  *)
(* precede the first pair whose method name is empty or not a string, in   *)
(* order; the operation fails exactly when there is such a pair, so a      *)
(* rejected addMethodCall leaves calls unchanged and a setMethodCalls      *)
(* whose k-th pair is invalid has appended exactly the first k-1 pairs.    *)
(***************************************************************************)
IsValidMethodName(m) == m.t = "string" /\ m.v # ""

FirstInvalid(pairs) ==
    IF \E k \in DOMAIN pairs : ~IsValidMethodName(pairs[k][1])
    THEN CHOOSE k \in DOMAIN pairs :
             /\ ~IsValidMethodName(pairs[k][1])
             /\ \A h \in 1..(k - 1) : IsValidMethodName(pairs[h][1])
    ELSE Len(pairs) + 1

C8_CallsAppendOnly ==
    lastCall.op # "none" =>
        LET k == FirstInvalid(lastCall.pairs)
        IN  /\ calls = lastCall.before \o SubSeq(lastCall.pairs, 1, k - 1)
            /\ lastCall.threw <=> (k <= Len(lastCall.pairs))

\* A setMethodCalls on a non-empty calls that failed at its second pair
C8_PartialBatch ==
    /\ lastCall.op = "setMethodCalls"
    /\ lastCall.threw
    /\ lastCall.before # <<>>
    /\ Len(calls) = Len(lastCall.before) + 1

(***************************************************************************)
(* C9.  sortFilesByHierarchy returns a permutation of its input in which,  *)
(* inside the Service group and inside the EnvironmentService group, every *)
(* descriptor of greater depth comes before every descriptor of smaller    *)
(* depth and descriptors of equal depth keep their input order, and in     *)
(* which the Parameter group keeps its input order.                        *)
(***************************************************************************)
IsPermutationOf(out, in) ==
    /\ Len(out) = Len(in)
    /\ \A i \in DOMAIN in : \E j \in DOMAIN out : out[j] = in[i]

C9_SortedByDepth ==
    sortOut.done =>
        /\ IsPermutationOf(sortOut.files, sortIn)
        /\ \A i, j \in DOMAIN sortIn :
               LET x == sortIn[i]
                   y == sortIn[j]
                   XBeforeY == Pos(sortOut.files, x) < Pos(sortOut.files, y)
               IN  /\ KindOf(x) = KindOf(y) /\ KindOf(x) # "Parameter"
                        => /\ x.level.n > y.level.n => XBeforeY
                           /\ x.level.n = y.level.n /\ i < j => XBeforeY
                   /\ KindOf(x) = "Parameter" /\ KindOf(y) = "Parameter" /\ i < j
                        => XBeforeY

(***************************************************************************)
(* C7.  Every descriptor discovery produces carries an integer depth: the  *)
(* number of directory descents from the scan root to the file's directory.*)
(***************************************************************************)
C7_DepthIsDescents ==
    built.called =>
        \A i \in DOMAIN built.found :
            built.found[i].level = JsNum(Descents(built.found[i].dir))

(***************************************************************************)
(* C1.  After buildContainer, of two discovered Service files at different *)
(* depths the deeper is resolved first, and the service both define is not *)
(* left with the deeper file's value.                                      *)
(***************************************************************************)
\* The files parseFile was called on by buildContainer, in order
ResolvedFiles(b) ==
    LET top1 == SelectSeq(b.container.entered, LAMBDA ch : Len(ch) = 1)
    IN  [i \in DOMAIN top1 |-> top1[i][1]]

C1_DeeperFirst ==
    built.called =>
        \A i, j \in DOMAIN built.found :
            LET x == built.found[i]
                y == built.found[j]
            IN  KindOf(x) = "Service" /\ KindOf(y) = "Service"
                /\ Descents(x.dir) > Descents(y.dir)
                => /\ Pos(ResolvedFiles(built), x.file) < Pos(ResolvedFiles(built), y.file)
                   /\ Get(built.container.services, <<"svc">>).file # x.file

(***************************************************************************)
(* C2.  In every buildContainer run each discovered descriptor is resolved *)
(* once, every Service descriptor before every EnvironmentService          *)
(* descriptor and every EnvironmentService descriptor before every         *)
(* Parameter descriptor; so a name that an environment services file sets  *)
(* is not left with a base services file's value, and the parameter that a *)
(* parameters file sets is left with a parameters file's value.            *)
(***************************************************************************)
\* The kind of the discovered descriptor of file f
FoundKind(b, f) ==
    KindOf(b.found[CHOOSE i \in DOMAIN b.found : b.found[i].file = f])

C2_GroupOrder ==
    built.called =>
        LET order == ResolvedFiles(built)
            kinds == {KindOf(built.found[i]) : i \in DOMAIN built.found}
            sink  == built.container
        IN  /\ IsPermutationOf(order, [i \in DOMAIN built.found |-> built.found[i].file])
            /\ \A i, j \in DOMAIN order :
                   GroupRank(FoundKind(built, order[i])) < GroupRank(FoundKind(built, order[j]))
                   => i < j
            /\ "EnvironmentService" \in kinds
                   => /\ FoundKind(built, Get(sink.services, <<"svc">>).file)
                          = "EnvironmentService"
                      /\ FoundKind(built, Get(sink.parameters, <<"name">>)) # "Service"
            /\ "Parameter" \in kinds
                   => FoundKind(built, Get(sink.parameters, <<"name">>)) = "Parameter"

\* A build whose discovery met a descriptor of a later group before one of an
\* earlier group, the earlier group's file lying deeper
C2_GroupsDiscoveredOutOfOrder ==
    /\ built.called
    /\ \E i, j \in DOMAIN built.found :
           /\ i < j
           /\ GroupRank(KindOf(built.found[i])) > GroupRank(KindOf(built.found[j]))
           /\ Descents(built.found[i].dir) < Descents(built.found[j].dir)

(***************************************************************************)
(* C6.  In every build, an option the caller did not supply has its        *)
(* default: without ignoreNodeModulesDirectory no file below a             *)
(* node_modules directory is discovered, and without env no environment    *)
(* services file is.                                                       *)
(***************************************************************************)
Supplied(arg, option) ==
    IF arg = Undefined THEN FALSE
    ELSE IF option = "env" THEN arg.env # Undefined
    ELSE arg.ignoreNodeModulesDirectory # Undefined

C6_DefaultsApply ==
    built.called =>
        /\ ~Supplied(built.arg, "ignoreNodeModulesDirectory")
               => \A i \in DOMAIN built.found : HasNoNodeModules(built.found[i].file)
        /\ ~Supplied(built.arg, "env")
               => \A i \in DOMAIN built.found : KindOf(built.found[i]) # "EnvironmentService"

(***************************************************************************)
(* The import graph of SpecResolve, read off the records                   *)
(***************************************************************************)
Last(seq) == seq[Len(seq)]

\* The files the imports of f name, in declared order
Targets(f) ==
    [i \in DOMAIN require[f].imports |-> Append(RootDirectory, require[f].imports[i][2])]

RECURSIVE Closure(_)
Closure(S) ==
    LET next == S \cup UNION {Range(Targets(f)) : f \in S}
    IN  IF next = S THEN S ELSE Closure(next)

\* The files f imports, directly or transitively
Descendants(f) == Closure(Range(Targets(f)))

OnCycle(f) == f \in Descendants(f)

\* No file the top descriptor reaches imports itself, directly or transitively
Acyclic == \A f \in {TopFile} \cup Descendants(TopFile) : ~OnCycle(f)

\* The number of import paths from one file to another (of an acyclic graph)
RECURSIVE ImportPaths(_, _)
RECURSIVE ImportPathsVia(_, _)
ImportPathsVia(targets, to) ==
    IF targets = <<>> THEN 0
    ELSE ImportPaths(Head(targets), to) + ImportPathsVia(Tail(targets), to)

ImportPaths(from, to) ==
    (IF from = to THEN 1 ELSE 0) + ImportPathsVia(Targets(from), to)

IsProperPrefix(p, q) == Len(p) < Len(q) /\ IsPrefix(p, q)

(***************************************************************************)
(* C3.  Every name passed to setParameter or set is the inherited          *)
(* namespace and the namespaces declared by the files of the import chain  *)
(* from the top-level descriptor to the declaring file, those that declare *)
(* one, joined with '.', followed by '.' and the raw key; the bare key     *)
(* when no namespace is left.                                              *)
(***************************************************************************)
RECURSIVE JoinDots(_)
JoinDots(parts) ==
    IF parts = <<>> THEN <<>>
    ELSE LET rest == JoinDots(Tail(parts))
         IN  IF Head(parts) = <<>> THEN rest
             ELSE IF rest = <<>> THEN Head(parts)
             ELSE Head(parts) \o <<".">> \o rest

ExpectedName(chain, key) ==
    LET ns == JoinDots(<<top.namespace>> \o [i \in DOMAIN chain |-> require[chain[i]].namespace])
    IN  IF ns = <<>> THEN <<key>> ELSE ns \o <<".", key>>

C3_ComposedNames ==
    run.called =>
        \A i \in DOMAIN run.container.log :
            LET e == run.container.log[i]
            IN  e.name = ExpectedName(e.chain, IF e.op = "setParameter" THEN "p" ELSE "s")

\* c.json, imported by b.json (no namespace), imported by a.json, under the
\* inherited namespace x, emits x.a.c.p
C3_ThreeLevelName ==
    /\ run.called
    /\ \E i \in DOMAIN run.container.log :
           /\ run.container.log[i].chain = <<TopFile, FileB, FileC>>
           /\ run.container.log[i].name = <<"x", ".", "a", ".", "c", ".", "p">>

(***************************************************************************)
(* C4.  For every file resolved, the emissions of its imports (transitive, *)
(* in the declared order of the imports list) come before the file's own   *)
(* emissions, and its own parameters before its own services; so when the  *)
(* call returns, each name the top-level file emits holds that file's      *)
(* value.  A call of parseFile is told by its call stack (chain).          *)
(***************************************************************************)
C4_ImportsThenOwn ==
    run.called =>
        LET log == run.container.log
        IN  /\ \A i, j \in DOMAIN log :
                   LET ci == log[i].chain
                       cj == log[j].chain
                   IN  /\ IsProperPrefix(cj, ci) => i < j
                       /\ ci = cj /\ log[i].op = "setParameter" /\ log[j].op = "set"
                              => i < j
                       /\ \A k \in 1..Len(ci) :
                              /\ k < Len(cj)
                              /\ SubSeq(ci, 1, k) = SubSeq(cj, 1, k)
                              /\ k < Len(ci)
                              /\ ci[k + 1] # cj[k + 1]
                              /\ Pos(Targets(ci[k]), ci[k + 1]) < Pos(Targets(ci[k]), cj[k + 1])
                              => i < j
            /\ ~run.container.threw =>
                   \A i \in DOMAIN log :
                       log[i].chain = <<TopFile>> =>
                           IF log[i].op = "setParameter"
                           THEN Get(run.container.parameters, log[i].name) = TopFile
                           ELSE Get(run.container.services, log[i].name).file = TopFile

\* A returned call in which the top-level file and a file it imports through
\* another emitted the same name
C4_TransitiveCollision ==
    /\ run.called
    /\ ~run.container.threw
    /\ \E i, j \in DOMAIN run.container.log :
           /\ run.container.log[j].chain = <<TopFile>>
           /\ Len(run.container.log[i].chain) > 2
           /\ run.container.log[i].name = run.container.log[j].name
           /\ run.container.log[i].op = run.container.log[j].op

(***************************************************************************)
(* C5 as claimed.  Resolving a Parameter descriptor makes no set() call,   *)
(* whatever the descriptor and the files it imports hold.                  *)
(***************************************************************************)
C5_NoSetCall ==
    run.called /\ Truthy(top.fileinfo.isParamFile) =>
        \A i \in DOMAIN run.container.log : run.container.log[i].op # "set"

(***************************************************************************)
(* C5 as amended.  Resolving a Parameter descriptor makes no set() call    *)
(* for the services of the descriptor's own record: every set() call of    *)
(* the resolve comes from a file it imports, directly or transitively.     *)
(***************************************************************************)
C5_OwnServicesNeverSet ==
    run.called /\ Truthy(top.fileinfo.isParamFile) =>
        \A i \in DOMAIN run.container.log :
            run.container.log[i].op = "set" => Len(run.container.log[i].chain) > 1

\* A returned resolve of a Parameter descriptor whose own parameter was set and
\* whose import's service was set
C5_ParameterFileWithImport ==
    /\ run.called
    /\ Truthy(top.fileinfo.isParamFile)
    /\ ~run.container.threw
    /\ \E i, j \in DOMAIN run.container.log :
           /\ run.container.log[i].op = "set"
           /\ run.container.log[j].op = "setParameter"
           /\ run.container.log[j].chain = <<TopFile>>

(***************************************************************************)
(* C10.  parseFile returns if and only if the import graph the descriptor  *)
(* reaches is acyclic (otherwise the call stack is exhausted).  When it    *)
(* returns, each file was resolved once per import path leading to it; and *)
(* a file on a cycle never emits its own parameters or services.           *)
(***************************************************************************)
C10_ReturnsIffAcyclic ==
    run.called =>
        LET c == run.container
        IN  /\ ~c.threw <=> Acyclic
            /\ ~c.threw =>
                   \A f \in ResolveFiles :
                       Cardinality({i \in DOMAIN c.entered : Last(c.entered[i]) = f})
                           = ImportPaths(TopFile, f)
            /\ \A i \in DOMAIN c.log : ~OnCycle(Last(c.log[i].chain))

\* A call that exhausted the stack on a cycle after a file off the cycle had
\* emitted
C10_CycleAfterEmission ==
    /\ run.called
    /\ run.container.threw
    /\ run.container.log # <<>>

============================================================================
